---- MODULE Spec2Model ----
(***************************************************************************)
(* A model of dj-stripe's admin bindings (djstripe/admin.py) and of its    *)
(* webhook signal registry (djstripe/signals.py).                          *)
(*                                                                         *)
(* Records are primary keys (integers).  A queryset is the sequence of the *)
(* rows it yields, so that the duplicates a join produces, and what        *)
(* distinct() does to them, are visible.  Python's None is NoneV.          *)
(***************************************************************************)
EXTENDS Integers, Sequences, FiniteSets, TLC

VARIABLES
    default_source,     \* Customer pk -> its default source, or NoneV
    subscriptions,      \* the Subscription table: rows [customer, status], in pk order
    invoice_customer,   \* the Invoice table: per Invoice pk, the pk of its customer
    changelist,         \* the last changelist request: filter, value, input, result
    receipt_sent,       \* Charge pk -> Charge.receipt_sent
    receipt_action,     \* the last send_charge_receipt run
    plans,              \* the Plan table: rows, in pk order
    plan_created,       \* per Plan pk, the row as it was created
    plan_action,        \* the last PlanAdmin operation
    WEBHOOK_SIGNALS,    \* event-type string -> Signal object
    receivers,          \* pairs <<Signal object, receiver>>: Signal.receivers
    subscribed,         \* pairs <<event type or "error", receiver>>: who asked for what
    published,          \* the last publish: type, outcome, receivers notified
    subscriber_rows,    \* the subscriber pks that exist
    customer_subscriber,\* Customer pk -> the pk of its subscriber, or 0
    call_log            \* purge calls and row removals, in the order they happened

vars == <<default_source, subscriptions, invoice_customer, changelist,
          receipt_sent, receipt_action, plans, plan_created, plan_action,
          WEBHOOK_SIGNALS, receivers, subscribed, published,
          subscriber_rows, customer_subscriber, call_log>>

adminFilterVars == <<default_source, subscriptions, invoice_customer, changelist>>
chargeVars == <<receipt_sent, receipt_action>>
planVars == <<plans, plan_created, plan_action>>
signalVars == <<WEBHOOK_SIGNALS, receivers, subscribed, published>>
subscriberVars == <<subscriber_rows, customer_subscriber, call_log>>

(***************************************************************************)
(* Bounds.                                                                 *)
(***************************************************************************)
NCustomers == 2
\* The Subscription and Invoice rows, together.
MaxRows == 2

Customers == 1..NCustomers

NoneV == "<None>"
Sources == {"card_1"}
Statuses == {"active", "past_due"}

(***************************************************************************)
(* Sequences.                                                              *)
(***************************************************************************)
Range(s) == {s[i] : i \in 1..Len(s)}

Min(S) == CHOOSE x \in S : \A y \in S : x <= y

RECURSIVE SetToSeq(_)
\* The rows of a table with pks S, in pk order.
SetToSeq(S) == IF S = {} THEN <<>> ELSE <<Min(S)>> \o SetToSeq(S \ {Min(S)})

RECURSIVE SeqsUpTo(_, _)
\* The sequences over S of length at most n.
SeqsUpTo(S, n) ==
    IF n = 0 THEN {<<>>}
    ELSE LET shorter == SeqsUpTo(S, n - 1)
         IN  shorter \cup {Append(s, x) : s \in {t \in shorter : Len(t) = n - 1}, x \in S}

Count(s, x) == Cardinality({i \in 1..Len(s) : s[i] = x})

(***************************************************************************)
(* The ORM's query interface, as admin.py uses it.                         *)
(***************************************************************************)
\* No DISTINCT: the rows as the join yields them.
no_distinct(rows) == rows

RECURSIVE distinct(_)
\* SELECT DISTINCT: each row once, at its first place.
distinct(rows) ==
    IF rows = <<>> THEN <<>>
    ELSE LET front == distinct(SubSeq(rows, 1, Len(rows) - 1))
             last == rows[Len(rows)]
         IN  IF last \in Range(front) THEN front ELSE Append(front, last)

\* queryset.all(): a copy yielding the same rows.
all(rows) == rows

\* queryset.filter(default_source=None) on Customer rows.
filter_default_source_None(rows) ==
    SelectSeq(rows, LAMBDA c : default_source[c] = NoneV)

\* exclude() taken for filter().
exclude_as_filter_default_source_None(rows) == filter_default_source_None(rows)

\* queryset.exclude(default_source=None) on Customer rows.
exclude_default_source_None(rows) ==
    SelectSeq(rows, LAMBDA c : ~(default_source[c] = NoneV))

\* queryset.filter(customer__default_source=None) on Invoice rows.
filter_customer_default_source_None(rows) ==
    SelectSeq(rows, LAMBDA i : default_source[invoice_customer[i]] = NoneV)

\* queryset.exclude(customer__default_source=None) on Invoice rows.
exclude_customer_default_source_None(rows) ==
    SelectSeq(rows, LAMBDA i : ~(default_source[invoice_customer[i]] = NoneV))

RECURSIVE JoinRows(_, _, _)
\* The rows of customer c joined to the first n subscriptions, kept where the
\* subscription's status is v: one row per matching subscription.
JoinRows(c, v, n) ==
    IF n = 0 THEN <<>>
    ELSE JoinRows(c, v, n - 1) \o
         (IF subscriptions[n].customer = c /\ subscriptions[n].status = v
          THEN <<c>> ELSE <<>>)

RECURSIVE filter_subscriptions_status(_, _)
\* queryset.filter(subscriptions__status=v) on Customer rows: an inner join
\* to the Subscription table.
filter_subscriptions_status(rows, v) ==
    IF rows = <<>> THEN <<>>
    ELSE JoinRows(Head(rows), v, Len(subscriptions))
         \o filter_subscriptions_status(Tail(rows), v)

\* Subscription.objects.all().values_list("status", flat=True)
values_list_status == [n \in 1..Len(subscriptions) |-> subscriptions[n].status]

(***************************************************************************)
(* str.replace("_", " ") and str.title(), on the characters of a string.   *)
(***************************************************************************)
Chars(s) ==
    CASE s = "active" -> <<"a", "c", "t", "i", "v", "e">>
      [] s = "past_due" -> <<"p", "a", "s", "t", "_", "d", "u", "e">>

Text(cs) ==
    CASE cs = <<"A", "c", "t", "i", "v", "e">> -> "Active"
      [] cs = <<"P", "a", "s", "t", " ", "D", "u", "e">> -> "Past Due"
      [] OTHER -> "?"

Lower == <<"a", "c", "d", "e", "i", "p", "s", "t", "u", "v">>
Upper == <<"A", "C", "D", "E", "I", "P", "S", "T", "U", "V">>
IsLetter(ch) == ch \in Range(Lower) \cup Range(Upper)
ToUpper(ch) ==
    IF ch \in Range(Lower) THEN Upper[CHOOSE i \in 1..Len(Lower) : Lower[i] = ch] ELSE ch
ToLower(ch) ==
    IF ch \in Range(Upper) THEN Lower[CHOOSE i \in 1..Len(Upper) : Upper[i] = ch] ELSE ch

replace(cs, old, new) == [i \in 1..Len(cs) |-> IF cs[i] = old THEN new ELSE cs[i]]

\* str.title(): a letter that follows no letter is upper-cased, any other
\* letter lower-cased.
title(cs) ==
    [i \in 1..Len(cs) |->
        IF i = 1 \/ ~IsLetter(cs[i - 1]) THEN ToUpper(cs[i]) ELSE ToLower(cs[i])]

(***************************************************************************)
(* The list filters.  queryset returns a queryset, or None when the method *)
(* falls off its end.                                                      *)
(***************************************************************************)
ReturnNone == [kind |-> "None", rows |-> <<>>]
Return(rows) == [kind |-> "QuerySet", rows |-> rows]

HasSourceValues == {NoneV, "yes", "no"}
StatusValues == {NoneV, "none"} \cup Statuses

HasSourceLookups == << <<"yes", "Has Source">>, <<"no", "Does Not Have Source">> >>

CustomerHasSourceListFilter_queryset(value, queryset) ==
    IF value = "yes" THEN Return(exclude_default_source_None(queryset))
    ELSE IF value = "no" THEN Return(filter_default_source_None(queryset))
    ELSE ReturnNone

InvoiceCustomerHasSourceListFilter_queryset(value, queryset) ==
    IF value = "yes" THEN Return(exclude_customer_default_source_None(queryset))
    ELSE IF value = "no" THEN Return(filter_customer_default_source_None(queryset))
    ELSE ReturnNone

CustomerSubscriptionStatusListFilter_lookups ==
    LET found == distinct(values_list_status)
        statuses == [i \in 1..Len(found) |->
                        <<found[i], Text(title(replace(Chars(found[i]), "_", " ")))>>]
    IN  Append(statuses, <<"none", "No Subscription">>)

\* The method without its "value() is None" branch.
CustomerSubscriptionStatusListFilter_queryset_unguarded(value, queryset) ==
    Return(distinct(filter_subscriptions_status(queryset, value)))

CustomerSubscriptionStatusListFilter_queryset(value, queryset) ==
    IF value = NoneV THEN Return(all(queryset))
    ELSE Return(distinct(filter_subscriptions_status(queryset, value)))

(***************************************************************************)
(* A changelist request: one list filter applied to the rows it is given.  *)
(***************************************************************************)
NoRequest == [filter |-> "", value |-> NoneV, input |-> <<>>,
              result |-> ReturnNone, lookups |-> <<>>]

CustomerHasSource(value, S) ==
    /\ changelist = NoRequest
    /\ changelist' = [filter |-> "CustomerHasSourceListFilter",
                      value |-> value,
                      input |-> SetToSeq(S),
                      result |-> CustomerHasSourceListFilter_queryset(value, SetToSeq(S)),
                      lookups |-> HasSourceLookups]
    /\ UNCHANGED <<default_source, subscriptions, invoice_customer>>
    /\ UNCHANGED <<chargeVars, planVars, signalVars, subscriberVars>>

InvoiceCustomerHasSource(value, S) ==
    /\ changelist = NoRequest
    /\ changelist' = [filter |-> "InvoiceCustomerHasSourceListFilter",
                      value |-> value,
                      input |-> SetToSeq(S),
                      result |-> InvoiceCustomerHasSourceListFilter_queryset(value, SetToSeq(S)),
                      lookups |-> HasSourceLookups]
    /\ UNCHANGED <<default_source, subscriptions, invoice_customer>>
    /\ UNCHANGED <<chargeVars, planVars, signalVars, subscriberVars>>

CustomerSubscriptionStatus(value, S) ==
    /\ changelist = NoRequest
    /\ changelist' = [filter |-> "CustomerSubscriptionStatusListFilter",
                      value |-> value,
                      input |-> SetToSeq(S),
                      result |-> CustomerSubscriptionStatusListFilter_queryset(value, SetToSeq(S)),
                      lookups |-> CustomerSubscriptionStatusListFilter_lookups]
    /\ UNCHANGED <<default_source, subscriptions, invoice_customer>>
    /\ UNCHANGED <<chargeVars, planVars, signalVars, subscriberVars>>

(***************************************************************************)
(* The Charge admin's action.                                              *)
(***************************************************************************)
NCharges == 4
Charges == 1..NCharges

\* Charge.send_receipt(): mails the receipt of a charge that has none yet and
\* marks the charge.  run is [receipt_sent, mailed]: the flags, and the
\* charges mailed so far, in order.
send_receipt(run, charge) ==
    IF run.receipt_sent[charge] THEN run
    ELSE [receipt_sent |-> [run.receipt_sent EXCEPT ![charge] = TRUE],
          mailed |-> Append(run.mailed, charge)]

RECURSIVE ForEachCharge(_, _)
\* The loop: send_receipt on each charge the queryset yields, in order.
ForEachCharge(run, rows) ==
    IF rows = <<>> THEN run
    ELSE ForEachCharge(send_receipt(run, Head(rows)), Tail(rows))

\* The action run on Charge.objects.all() instead of on the selection.
send_charge_receipt_all(run, queryset) == ForEachCharge(run, SetToSeq(Charges))

\* for charge in queryset: charge.send_receipt()
send_charge_receipt(run, queryset) == ForEachCharge(run, queryset)

NoReceiptAction == [selected |-> {}, before |-> [c \in Charges |-> FALSE], mailed |-> <<>>]

\* The admin runs the action on the charges selected in the changelist.
SendChargeReceipt(S) ==
    LET run == send_charge_receipt([receipt_sent |-> receipt_sent, mailed |-> <<>>],
                                   SetToSeq(S))
    IN  /\ receipt_sent' = run.receipt_sent
        /\ receipt_action' = [selected |-> S, before |-> receipt_sent, mailed |-> run.mailed]
        /\ UNCHANGED <<adminFilterVars, planVars, signalVars, subscriberVars>>

(***************************************************************************)
(* The Plan admin.                                                         *)
(***************************************************************************)
MaxPlans == 2

PlanFields == {"stripe_id", "amount", "currency", "interval", "interval_count",
               "trial_period_days", "name"}

\* The fields PlanAdmin.get_readonly_fields adds for an existing object.
SyncedFields == <<"stripe_id", "amount", "currency", "interval", "interval_count",
                  "trial_period_days">>

StripeIds == {"gold", "silver"}

BasePlan == [stripe_id |-> "gold", amount |-> "1000", currency |-> "usd",
             interval |-> "month", interval_count |-> "1",
             trial_period_days |-> "0", name |-> "Basic"]

OtherPlan == [stripe_id |-> "silver", amount |-> "2500", currency |-> "eur",
              interval |-> "year", interval_count |-> "3",
              trial_period_days |-> "14", name |-> "Premium"]

\* The form data posted: BasePlan with at most one other field changed, under
\* either stripe_id.
PlanForms ==
    {[f \in PlanFields |->
         IF f = "stripe_id" THEN id
         ELSE IF f = changed THEN OtherPlan[f] ELSE BasePlan[f]] :
       id \in StripeIds, changed \in PlanFields}

\* ModelAdmin.readonly_fields, which PlanAdmin does not set.
readonly_fields == <<>>

get_readonly_fields_on_add(obj) ==
    IF obj = {} THEN readonly_fields \o SyncedFields ELSE readonly_fields

\* PlanAdmin.get_readonly_fields.  obj is {} for None (the add view), and the
\* set holding the pk of the object edited otherwise.
get_readonly_fields(obj) ==
    IF obj # {} THEN readonly_fields \o SyncedFields ELSE readonly_fields

\* Plan.update_name(): pushes the name to Stripe and saves the object.
update_name(table, pk, obj) == [table EXCEPT ![pk] = obj]

\* Plan.get_or_create(**kwargs): the plan with this stripe_id, or a new one.
get_or_create(table, kwargs) ==
    IF \E pk \in 1..Len(table) : table[pk].stripe_id = kwargs.stripe_id
    THEN table
    ELSE Append(table, kwargs)

\* PlanAdmin.save_model(request, obj, form, change)
save_model(table, pk, obj, cleaned_data, change) ==
    IF change THEN update_name(table, pk, obj) ELSE get_or_create(table, cleaned_data)

\* The admin's form: the posted data, less the read-only fields, over the
\* object edited.
FormObject(old, post, readonly) ==
    [f \in PlanFields |-> IF f \in Range(readonly) THEN old[f] ELSE post[f]]

NoPlanAction == [op |-> "", pk |-> 0, post |-> BasePlan, before |-> <<>>]

\* The add view, posted.
AddPlan(post) ==
    /\ Len(plans) < MaxPlans
    /\ LET cleaned_data == FormObject(BasePlan, post, get_readonly_fields({}))
           table == save_model(plans, Len(plans) + 1, cleaned_data, cleaned_data, FALSE)
       IN  /\ plans' = table
           /\ plan_created' = plan_created \o SubSeq(table, Len(plans) + 1, Len(table))
           /\ plan_action' = [op |-> "add", pk |-> 0, post |-> post, before |-> plans]
    /\ UNCHANGED <<adminFilterVars, chargeVars, signalVars, subscriberVars>>

\* The change view of plan pk, posted.
EditPlan(pk, post) ==
    /\ pk \in 1..Len(plans)
    /\ LET obj == FormObject(plans[pk], post, get_readonly_fields({pk}))
           table == save_model(plans, pk, obj, obj, TRUE)
       IN  /\ plans' = table
           /\ plan_created' = plan_created \o SubSeq(table, Len(plans) + 1, Len(table))
           /\ plan_action' = [op |-> "change", pk |-> pk, post |-> post, before |-> plans]
    /\ UNCHANGED <<adminFilterVars, chargeVars, signalVars, subscriberVars>>

(***************************************************************************)
(* The webhook signals.  A Signal object is the number of its construction *)
(* at module load: webhook_processing_error first, then one per hook of    *)
(* the comprehension.                                                      *)
(***************************************************************************)
webhook_processing_error == 0

HookList == <<
    "account.updated", "account.application.authorized",
    "account.application.deauthorized", "account.external_account.created",
    "account.external_account.deleted", "account.external_account.updated",
    "application_fee.created", "application_fee.refunded",
    "application_fee.refund.updated", "balance.available", "charge.captured",
    "charge.expired", "charge.failed", "charge.pending", "charge.refunded",
    "charge.succeeded", "charge.updated", "charge.dispute.closed",
    "charge.dispute.created", "charge.dispute.funds_reinstated",
    "charge.dispute.funds_withdrawn", "charge.dispute.updated", "charge.refund.updated",
    "checkout_beta.session_succeeded", "coupon.created", "coupon.deleted",
    "coupon.updated", "customer.created", "customer.deleted", "customer.updated",
    "customer.discount.created", "customer.discount.deleted", "customer.discount.updated",
    "customer.source.created", "customer.source.deleted", "customer.source.expiring",
    "customer.source.updated", "customer.subscription.created",
    "customer.subscription.deleted", "customer.subscription.trial_will_end",
    "customer.subscription.updated", "file.created", "invoice.created", "invoice.deleted",
    "invoice.finalized", "invoice.marked_uncollectible", "invoice.payment_failed",
    "invoice.payment_succeeded", "invoice.sent", "invoice.upcoming", "invoice.updated",
    "invoice.voided", "invoiceitem.created", "invoiceitem.deleted", "invoiceitem.updated",
    "issuing_authorization.created", "issuing_authorization.request",
    "issuing_authorization.updated", "issuing_card.created", "issuing_card.updated",
    "issuing_cardholder.created", "issuing_cardholder.updated", "issuing_dispute.created",
    "issuing_dispute.updated", "issuing_settlement.created", "issuing_settlement.updated",
    "issuing_transaction.created", "issuing_transaction.updated", "order.created",
    "order.payment_failed", "order.payment_succeeded", "order.updated",
    "order_return.created", "payment_intent.amount_capturable_updated",
    "payment_intent.created", "payment_intent.payment_failed",
    "payment_intent.requires_capture", "payment_intent.succeeded", "payout.canceled",
    "payout.created", "payout.failed", "payout.paid", "payout.updated", "plan.created",
    "plan.deleted", "plan.updated", "product.created", "product.deleted",
    "product.updated", "recipient.created", "recipient.deleted", "recipient.updated",
    "reporting.report_run.failed", "reporting.report_run.succeeded",
    "reporting.report_type.updated", "review.closed", "review.opened",
    "sigma.scheduled_query_run.created", "sku.created", "sku.deleted", "sku.updated",
    "source.canceled", "source.chargeable", "source.failed", "source.mandate_notification",
    "source.refund_attributes_required", "source.transaction.created",
    "source.transaction.updated", "topup.canceled", "topup.created", "topup.failed",
    "topup.reversed", "topup.succeeded", "transfer.created", "transfer.reversed",
    "transfer.updated", "issuer_fraud_record.created", "subscription_schedule.canceled",
    "subscription_schedule.completed", "subscription_schedule.created",
    "subscription_schedule.released", "subscription_schedule.updated", "ping"
>>

\* One Signal object for the whole comprehension.
SharedSignal(i) == 1

\* Signal(providing_args=["event"]), evaluated for the i-th hook.
HookSignal(i) == i

\* dict(pairs): a key's last pair is the one kept.
dict(pairs) ==
    [k \in {pairs[i][1] : i \in 1..Len(pairs)} |->
        pairs[CHOOSE i \in 1..Len(pairs) :
                 /\ pairs[i][1] = k
                 /\ \A j \in 1..Len(pairs) : pairs[j][1] = k => j <= i][2]]

\* WEBHOOK_SIGNALS as the module builds it.
LoadedSignals == dict([i \in 1..Len(HookList) |-> <<HookList[i], HookSignal(i)>>])

NReceivers == 2
MaxConnections == 2
NSubscribers == 3
NSubscriberCustomers == 3

Receivers == 1..NReceivers
Subscribers == 1..NSubscribers
SubscriberCustomers == 1..NSubscriberCustomers

\* The event types published and subscribed to here: three of the table's,
\* and one that is not in it.
KnownTypes == {"charge.succeeded", "invoice.created", "ping"}
UnknownType == "charge.unheard_of"

LookupOrErrorSignal(registry, type) ==
    IF type \in DOMAIN registry THEN {registry[type]} ELSE {webhook_processing_error}

\* Looking a type up in the dict: the set holding its Signal, or {} (no Signal:
\* None from get(), KeyError from []).
Lookup(registry, type) ==
    IF type \in DOMAIN registry THEN {registry[type]} ELSE {}

AfterLookupInDefaultdict(registry, type) ==
    IF type \in DOMAIN registry THEN registry
    ELSE [k \in DOMAIN registry \cup {type} |->
             IF k = type THEN Len(HookList) + 1 ELSE registry[k]]

\* The dict after a lookup: a plain dict adds no entry for a missing key.
AfterLookup(registry, type) == registry

\* Signal.send: every receiver connected to this Signal object is called.
send(signal) == {r \in Receivers : <<signal, r>> \in receivers}

NoPublish == [via |-> "", type |-> "", outcome |-> "", notified |-> {}, asked |-> {}]

\* WEBHOOK_SIGNALS[type].connect(r)
Subscribe(type, r) ==
    /\ Cardinality(receivers) < MaxConnections
    /\ type \in DOMAIN WEBHOOK_SIGNALS
    /\ receivers' = receivers \cup {<<WEBHOOK_SIGNALS[type], r>>}
    /\ subscribed' = subscribed \cup {<<type, r>>}
    /\ UNCHANGED <<WEBHOOK_SIGNALS, published>>
    /\ UNCHANGED <<adminFilterVars, chargeVars, planVars, subscriberVars>>

\* webhook_processing_error.connect(r)
SubscribeError(r) ==
    /\ Cardinality(receivers) < MaxConnections
    /\ receivers' = receivers \cup {<<webhook_processing_error, r>>}
    /\ subscribed' = subscribed \cup {<<"error", r>>}
    /\ UNCHANGED <<WEBHOOK_SIGNALS, published>>
    /\ UNCHANGED <<adminFilterVars, chargeVars, planVars, subscriberVars>>

\* The event-arrival code publishes an event of this type through the table.
Publish(type) ==
    /\ LET found == Lookup(WEBHOOK_SIGNALS, type)
       IN  published' =
               [via |-> "WEBHOOK_SIGNALS",
                type |-> type,
                outcome |-> IF found = {} THEN "unsupported" ELSE "sent",
                notified |-> UNION {send(signal) : signal \in found},
                asked |-> {r \in Receivers : <<type, r>> \in subscribed}]
    /\ WEBHOOK_SIGNALS' = AfterLookup(WEBHOOK_SIGNALS, type)
    /\ UNCHANGED <<receivers, subscribed>>
    /\ UNCHANGED <<adminFilterVars, chargeVars, planVars, subscriberVars>>

\* webhook_processing_error.send(...)
PublishError ==
    /\ published' = [via |-> "webhook_processing_error",
                     type |-> "error",
                     outcome |-> "sent",
                     notified |-> send(webhook_processing_error),
                     asked |-> {r \in Receivers : <<"error", r>> \in subscribed}]
    /\ UNCHANGED <<WEBHOOK_SIGNALS, receivers, subscribed>>
    /\ UNCHANGED <<adminFilterVars, chargeVars, planVars, subscriberVars>>

(***************************************************************************)
(* Deleting a subscriber.                                                  *)
(***************************************************************************)
\* instance.djstripe_customers.all()
djstripe_customers(instance) ==
    SetToSeq({c \in DOMAIN customer_subscriber : customer_subscriber[c] = instance})

\* for customer in instance.djstripe_customers.all(): customer.purge()
on_delete_subscriber_purge_customer(instance) ==
    LET found == djstripe_customers(instance)
    IN  [n \in 1..Len(found) |-> <<"purge", found[n]>>]

receiver_signal_post_delete == "post_delete"

\* @receiver(pre_delete, ...): the signal the handler is connected to.
receiver_signal == "pre_delete"

\* What the handlers connected to a deletion signal do for this instance.
Handlers(signal, instance) ==
    IF signal = receiver_signal THEN on_delete_subscriber_purge_customer(instance)
    ELSE <<>>

\* subscriber.delete(): pre_delete is sent, the row is removed, post_delete
\* is sent.
DeleteSubscriber(instance) ==
    /\ instance \in subscriber_rows
    /\ call_log' = call_log \o Handlers("pre_delete", instance)
                            \o << <<"removed", instance>> >>
                            \o Handlers("post_delete", instance)
    /\ subscriber_rows' = subscriber_rows \ {instance}
    /\ UNCHANGED customer_subscriber
    /\ UNCHANGED <<adminFilterVars, chargeVars, planVars, signalVars>>

(***************************************************************************)
(* Specifications.  Each starts from the state after module load, with the *)
(* tables its operations read filled from the bounded sets.                *)
(***************************************************************************)
EmptyAdminFilters ==
    /\ default_source = [c \in Customers |-> NoneV]
    /\ subscriptions = <<>>
    /\ invoice_customer = <<>>
    /\ changelist = NoRequest

EmptyCharges ==
    /\ receipt_sent = [c \in Charges |-> FALSE]
    /\ receipt_action = NoReceiptAction

EmptyPlans ==
    /\ plans = <<>>
    /\ plan_created = <<>>
    /\ plan_action = NoPlanAction

LoadedModule ==
    /\ WEBHOOK_SIGNALS = LoadedSignals
    /\ receivers = {}
    /\ subscribed = {}
    /\ published = NoPublish

AllSubscribers ==
    /\ subscriber_rows = Subscribers
    /\ call_log = <<>>

RoundRobin == [c \in SubscriberCustomers |-> ((c - 1) % NSubscribers) + 1]

\* The admin's list filters, over every small database.
InitFilters ==
    /\ default_source \in [Customers -> {NoneV} \cup Sources]
    /\ subscriptions \in SeqsUpTo([customer : Customers, status : Statuses], MaxRows)
    /\ invoice_customer \in SeqsUpTo(Customers, MaxRows)
    /\ Len(subscriptions) + Len(invoice_customer) <= MaxRows
    /\ changelist = NoRequest
    /\ EmptyCharges /\ EmptyPlans /\ LoadedModule
    /\ AllSubscribers /\ customer_subscriber = RoundRobin

NextFilters ==
    \/ \E value \in HasSourceValues, S \in SUBSET Customers : CustomerHasSource(value, S)
    \/ \E value \in HasSourceValues, S \in SUBSET (1..Len(invoice_customer)) :
           InvoiceCustomerHasSource(value, S)
    \/ \E value \in StatusValues, S \in SUBSET Customers :
           CustomerSubscriptionStatus(value, S)

SpecFilters == InitFilters /\ [][NextFilters]_vars

\* The Charge admin's action, from every combination of receipt_sent flags.
InitCharges ==
    /\ receipt_sent \in [Charges -> BOOLEAN]
    /\ receipt_action = NoReceiptAction
    /\ EmptyAdminFilters /\ EmptyPlans /\ LoadedModule
    /\ AllSubscribers /\ customer_subscriber = RoundRobin

NextCharges == \E S \in SUBSET Charges : SendChargeReceipt(S)

SpecCharges == InitCharges /\ [][NextCharges]_vars

\* The Plan admin, from an empty Plan table.
InitPlans ==
    /\ EmptyPlans
    /\ EmptyAdminFilters /\ EmptyCharges /\ LoadedModule
    /\ AllSubscribers /\ customer_subscriber = RoundRobin

NextPlans ==
    \/ \E post \in PlanForms : AddPlan(post)
    \/ \E pk \in 1..MaxPlans, post \in PlanForms : EditPlan(pk, post)

SpecPlans == InitPlans /\ [][NextPlans]_vars

\* Deleting subscribers, whatever customers each has.
InitSubscribers ==
    /\ AllSubscribers
    /\ customer_subscriber \in [SubscriberCustomers -> {0} \cup Subscribers]
    /\ EmptyAdminFilters /\ EmptyCharges /\ EmptyPlans /\ LoadedModule

NextSubscribers == \E instance \in Subscribers : DeleteSubscriber(instance)

SpecSubscribers == InitSubscribers /\ [][NextSubscribers]_vars

\* The signals: connecting, publishing, and deleting subscribers.
Init ==
    /\ LoadedModule
    /\ AllSubscribers /\ customer_subscriber = RoundRobin
    /\ EmptyAdminFilters /\ EmptyCharges /\ EmptyPlans

Next ==
    \/ \E type \in KnownTypes, r \in Receivers : Subscribe(type, r)
    \/ \E r \in Receivers : SubscribeError(r)
    \/ \E type \in KnownTypes \cup {UnknownType} : Publish(type)
    \/ PublishError
    \/ \E instance \in Subscribers : DeleteSubscriber(instance)

Spec == Init /\ [][Next]_vars

(***************************************************************************)
(* The claims.                                                             *)
(***************************************************************************)
HasSourceFilters == {"CustomerHasSourceListFilter", "InvoiceCustomerHasSourceListFilter"}
StatusFilter == "CustomerSubscriptionStatusListFilter"

\* Whether the row r of the changelist's model has a source.
HasSource(r) ==
    IF changelist.filter = "InvoiceCustomerHasSourceListFilter"
    THEN default_source[invoice_customer[r]] # NoneV
    ELSE default_source[r] # NoneV

\* The has_source filter of the last request, applied to its input again.
HasSourceAgain(value) ==
    IF changelist.filter = "InvoiceCustomerHasSourceListFilter"
    THEN InvoiceCustomerHasSourceListFilter_queryset(value, changelist.input)
    ELSE CustomerHasSourceListFilter_queryset(value, changelist.input)

NoDuplicates(rows) == \A r \in Range(rows) : Count(rows, r) = 1

HasSubscription(c, status) ==
    \E n \in 1..Len(subscriptions) :
        subscriptions[n].customer = c /\ subscriptions[n].status = status

\* C1, as stated: with no filter value selected (value() is None), each of the
\* three filters' queryset method returns the record set it was given.
C1_NoValueReturnsTheInput ==
    (changelist.filter # "" /\ changelist.value = NoneV)
        => changelist.result = Return(changelist.input)

\* C1, amended: with no filter value selected, the subscription-status filter's
\* queryset returns the records it was given (the same rows, none added, none
\* removed), and the two has_source filters' queryset returns None, no record
\* set at all.
C1_NoValueNarrowsNothing ==
    (changelist.filter # "" /\ changelist.value = NoneV)
        => IF changelist.filter = StatusFilter
           THEN changelist.result = Return(changelist.input)
           ELSE changelist.result = ReturnNone

C1_Witness ==
    /\ changelist.filter = StatusFilter
    /\ changelist.value = NoneV
    /\ Len(changelist.input) = NCustomers
    /\ \E c \in Customers : ~(\E n \in 1..Len(subscriptions) : subscriptions[n].customer = c)
    /\ changelist.result.rows = changelist.input

\* C2: a has_source filter with 'yes' returns exactly the records of its input
\* whose (customer's) default source is not null, with 'no' exactly those whose
\* default source is null, and the two results are disjoint and together are
\* the input.
C2_HasSourcePartitions ==
    (changelist.filter \in HasSourceFilters /\ changelist.value \in {"yes", "no"})
        => LET given == Range(changelist.input)
               yes == HasSourceAgain("yes")
               no == HasSourceAgain("no")
           IN  /\ changelist.result = HasSourceAgain(changelist.value)
               /\ yes.kind = "QuerySet" /\ no.kind = "QuerySet"
               /\ Range(yes.rows) = {r \in given : HasSource(r)}
               /\ Range(no.rows) = {r \in given : ~HasSource(r)}
               /\ NoDuplicates(yes.rows) /\ NoDuplicates(no.rows)
               /\ Range(yes.rows) \cap Range(no.rows) = {}
               /\ Range(yes.rows) \cup Range(no.rows) = given

C2_Witness ==
    /\ changelist.filter = "InvoiceCustomerHasSourceListFilter"
    /\ changelist.value = "yes"
    /\ Len(changelist.input) = 2
    /\ changelist.result.rows # <<>>
    /\ changelist.result.rows # changelist.input

\* C8: in the subscription-status filter, selecting 'none' (the option lookups
\* labels 'No Subscription') returns exactly the customers of the input that
\* have no subscription at all.
C8_NoneSelectsCustomersWithoutSubscription ==
    ( /\ changelist.filter = StatusFilter
      /\ changelist.value = "none"
      /\ changelist.lookups[Len(changelist.lookups)] = <<"none", "No Subscription">> )
        => /\ changelist.result.kind = "QuerySet"
           /\ Range(changelist.result.rows) =
                  {c \in Range(changelist.input) :
                      ~(\E n \in 1..Len(subscriptions) : subscriptions[n].customer = c)}

\* C9: in the subscription-status filter, selecting a status that lookups read
\* from the existing subscriptions returns exactly the customers of the input
\* with at least one subscription of that status, each once; and lookups
\* offers each status present among the subscriptions exactly once.
C9_StatusSelectsEachCustomerOnce ==
    (changelist.filter = StatusFilter)
        => /\ \A status \in Range(values_list_status) :
                  Cardinality({n \in 1..Len(changelist.lookups) :
                                  changelist.lookups[n][1] = status}) = 1
           /\ \A n \in 1..Len(changelist.lookups) :
                  changelist.lookups[n][1] \in Range(values_list_status) \cup {"none"}
           /\ changelist.value \in Range(values_list_status)
                  => /\ changelist.result.kind = "QuerySet"
                     /\ Range(changelist.result.rows) =
                            {c \in Range(changelist.input) :
                                HasSubscription(c, changelist.value)}
                     /\ NoDuplicates(changelist.result.rows)

C9_Witness ==
    /\ changelist.filter = StatusFilter
    /\ changelist.value = "past_due"
    /\ Len(changelist.input) = NCustomers
    /\ \E c \in Customers :
           /\ Cardinality({n \in 1..Len(subscriptions) :
                  subscriptions[n] = [customer |-> c, status |-> "past_due"]}) >= 2
           /\ changelist.result.rows = <<c>>
    /\ changelist.lookups = << <<"past_due", "Past Due">>, <<"none", "No Subscription">> >>

C10_SyncedFieldsKeepTheirValues ==
    /\ Len(plan_created) = Len(plans)
    /\ \A pk \in 1..Len(plans) : \A f \in Range(SyncedFields) :
           plans[pk][f] = plan_created[pk][f]
    /\ \A pk \in 1..Len(plans) : Range(SyncedFields) \subseteq Range(get_readonly_fields({pk}))
    /\ Range(SyncedFields) \cap Range(get_readonly_fields({})) = {}
    /\ plan_action.op = "change"
           => /\ Len(plans) = Len(plan_action.before)
              /\ \A pk \in 1..Len(plans) :
                     pk # plan_action.pk => plans[pk] = plan_action.before[pk]
    /\ plan_action.op = "add"
           => /\ Len(plans) \in {Len(plan_action.before), Len(plan_action.before) + 1}
              /\ \A pk \in 1..Len(plan_action.before) : plans[pk] = plan_action.before[pk]

C10_Witness ==
    /\ plan_action.op = "change"
    /\ Len(plans) = 2
    /\ plan_action.post.amount # plans[plan_action.pk].amount
    /\ plan_action.post.stripe_id # plans[plan_action.pk].stripe_id
    /\ plans[plan_action.pk].name # plan_created[plan_action.pk].name

\* C3: when a subscriber is deleted, purge is called exactly once on each of
\* its customers and on no customer of another subscriber, and each of these
\* calls comes before the subscriber's row is removed.
C3_PurgeBeforeRemoval ==
    /\ \A s \in Subscribers :
           Count(call_log, <<"removed", s>>) = (IF s \in subscriber_rows THEN 0 ELSE 1)
    /\ \A c \in DOMAIN customer_subscriber :
           LET s == customer_subscriber[c]
           IN  IF s \in Subscribers \ subscriber_rows
               THEN /\ Count(call_log, <<"purge", c>>) = 1
                    /\ \A i, j \in 1..Len(call_log) :
                           (call_log[i] = <<"purge", c>> /\ call_log[j] = <<"removed", s>>)
                               => i < j
               ELSE Count(call_log, <<"purge", c>>) = 0

C3_Witness ==
    \E s, t \in Subscribers :
        /\ s \notin subscriber_rows /\ t \in subscriber_rows
        /\ Cardinality({c \in SubscriberCustomers : customer_subscriber[c] = s}) = 2
        /\ \E c \in SubscriberCustomers : customer_subscriber[c] = t
        /\ Len(call_log) = 3
        /\ call_log[3] = <<"removed", s>>

\* C4: WEBHOOK_SIGNALS holds one signal per listed event type, each type its
\* own Signal object and none the webhook_processing_error signal, so that a
\* publish for a type reaches exactly the receivers connected for that type.
C4_OneSignalPerEventType ==
    /\ DOMAIN WEBHOOK_SIGNALS = Range(HookList)
    /\ Cardinality({WEBHOOK_SIGNALS[type] : type \in DOMAIN WEBHOOK_SIGNALS})
           = Cardinality(DOMAIN WEBHOOK_SIGNALS)
    /\ \A type \in DOMAIN WEBHOOK_SIGNALS : WEBHOOK_SIGNALS[type] # webhook_processing_error
    /\ (published.via = "WEBHOOK_SIGNALS" /\ published.outcome = "sent")
           => published.notified = published.asked

C4_Witness ==
    /\ published.via = "WEBHOOK_SIGNALS"
    /\ published.outcome = "sent"
    /\ \E r, other \in Receivers :
           /\ published.notified = {r}
           /\ <<published.type, other>> \notin subscribed
           /\ \E type \in (KnownTypes \cup {"error"}) \ {published.type} :
                  <<type, other>> \in subscribed

\* C5: the keys of WEBHOOK_SIGNALS and the Signal object of each key are, after
\* any sequence of subscribe, publish and subscriber-deletion operations, the
\* ones of module load.
C5_RegistryIsFixed == WEBHOOK_SIGNALS = LoadedSignals

C5_Witness ==
    /\ published.via = "WEBHOOK_SIGNALS"
    /\ published.type = UnknownType
    /\ receivers # {}
    /\ subscriber_rows # Subscribers

\* C6: a publish through the table for an event type that is not a key finds
\* no signal (an error outcome), notifies no receiver of any signal, and
\* leaves no entry for that type in the table.
C6_UnknownTypeIsUnsupported ==
    (published.via = "WEBHOOK_SIGNALS" /\ published.type \notin Range(HookList))
        => /\ published.outcome = "unsupported"
           /\ published.notified = {}
           /\ published.type \notin DOMAIN WEBHOOK_SIGNALS
           /\ DOMAIN WEBHOOK_SIGNALS = Range(HookList)

C6_Witness ==
    /\ published.via = "WEBHOOK_SIGNALS"
    /\ published.type = UnknownType
    /\ published.outcome = "unsupported"
    /\ \E r, e \in Receivers :
           /\ <<webhook_processing_error, e>> \in receivers
           /\ \E type \in KnownTypes : <<WEBHOOK_SIGNALS[type], r>> \in receivers

====
